---- MODULE Spec2Model ----
(***************************************************************************)
(* FeatherMaker.py: the interpolation core (lerp, LineGraph,              *)
(* BarbParameters) as a state machine over a heap of LineGraph objects.   *)
(*                                                                         *)
(* Python floats are binary floating-point numbers.  They are modelled as  *)
(* m * 2^e with a mantissa of at most Prec bits and round-half-to-even     *)
(* after every operation (exponent range unbounded: overflow and NaN are   *)
(* outside the bounds used here).  Python ints are a different type from   *)
(* floats and are kept apart, since lerp() dispatches on isinstance.       *)
(***************************************************************************)
EXTENDS Integers, Sequences, FiniteSets, TLC

\* ------------------------------------------------------------------ bounds
\* Mantissa width of the modelled float (Python: 53).
Prec == 3
\* set() calls in a behaviour.
MaxSets == 2

\* ------------------------------------------------------- float arithmetic
RECURSIVE Pow2(_)
Pow2(n) == IF n <= 0 THEN 1 ELSE 2 * Pow2(n - 1)

Abs(n) == IF n < 0 THEN -n ELSE n

RECURSIVE BitLen(_)
\* number of binary digits of n >= 0
BitLen(n) == IF n = 0 THEN 0 ELSE 1 + BitLen(n \div 2)

RECURSIVE Normalize(_, _)
\* canonical form of m * 2^e: m odd, or 0 * 2^0
Normalize(m, e) ==
    IF m = 0 THEN [tag |-> "float", m |-> 0, e |-> 0]
    ELSE IF m % 2 = 0 THEN Normalize(m \div 2, e + 1)
    ELSE [tag |-> "float", m |-> m, e |-> e]

\* the float nearest to n * 2^e, ties to even mantissa
Round(n, e) ==
    LET a  == Abs(n)
        sg == IF n < 0 THEN -1 ELSE 1
        sh == BitLen(a) - Prec
    IN  IF sh <= 0 THEN Normalize(n, e)
        ELSE LET q    == a \div Pow2(sh)
                 r    == a % Pow2(sh)
                 half == Pow2(sh - 1)
                 up   == r > half \/ (r = half /\ q % 2 = 1)
             IN  Normalize(sg * (IF up THEN q + 1 ELSE q), e + sh)

MinE(a, b) == IF a.e < b.e THEN a.e ELSE b.e

\* the integer x / 2^MinE(a, b)
Scaled(x, a, b) == x.m * Pow2(x.e - MinE(a, b))

FAdd(a, b) == Round(Scaled(a, a, b) + Scaled(b, a, b), MinE(a, b))
FSub(a, b) == Round(Scaled(a, a, b) - Scaled(b, a, b), MinE(a, b))
FMul(a, b) == Round(a.m * b.m, a.e + b.e)

\* a / b for b # 0: the quotient to 2*Prec+2 extra bits, the remainder kept as a
\* sticky bit, then rounded once
FDiv(a, b) ==
    LET s   == 2 * Prec + 2
        sg  == IF (a.m < 0) # (b.m < 0) THEN -1 ELSE 1
        num == Abs(a.m) * Pow2(s)
        q   == num \div Abs(b.m)
        st  == IF num % Abs(b.m) = 0 THEN 0 ELSE 1
    IN  Round(sg * (2 * q + st), a.e - b.e - s - 1)

FLe(a, b) == Scaled(a, a, b) <= Scaled(b, a, b)
FLt(a, b) == Scaled(a, a, b) < Scaled(b, a, b)

\* the float n / 2^k (a literal such as 0.25, or float(n) for k = 0)
F(n, k) == Round(n, -k)
Zero == F(0, 0)
One == F(1, 0)
Half == F(1, 1)

\* ------------------------------------------------------------------ values
I(n) == [tag |-> "int", n |-> n]
Err(kind) == [tag |-> "err", kind |-> kind]
IsErr(v) == v.tag = "err"
IsFloat(v) == v.tag = "float"

\* float(x) for a number x
ToFloat(x) == IF x.tag = "int" THEN F(x.n, 0) ELSE x

\* --------------------------------------------------------------- sorted()
\* a <= b on numbers (Python compares int and float by value)
NumLe(a, b) == FLe(ToFloat(a), ToFloat(b))

RECURSIVE Insert(_, _)
\* x put into the ascending sequence s, after the elements equal to it (stable)
Insert(s, x) ==
    IF s = <<>> THEN <<x>>
    ELSE IF NumLe(s[1], x) THEN <<s[1]>> \o Insert(Tail(s), x)
    ELSE <<x>> \o s

RECURSIVE Sorted(_)
Sorted(s) == IF s = <<>> THEN <<>> ELSE Insert(Sorted(SubSeq(s, 1, Len(s) - 1)), s[Len(s)])

\* ------------------------------------------------------------------- dict
\* A Python dict: its (key, value) pairs in insertion order.
DictKeys(d) == [i \in 1..Len(d) |-> d[i][1]]
DictHas(d, k) == \E i \in 1..Len(d) : d[i][1] = k
DictGet(d, k) == d[CHOOSE i \in 1..Len(d) : d[i][1] = k][2]

\* mutant of DictSet: d.setdefault(k, v), which keeps the value of an existing key
DictSetDefault(d, k, v) == IF DictHas(d, k) THEN d ELSE Append(d, <<k, v>>)

\* d[k] = v: an existing key keeps its place and takes the new value
DictSet(d, k, v) ==
    IF DictHas(d, k)
    THEN [i \in 1..Len(d) |-> IF d[i][1] = k THEN <<k, v>> ELSE d[i]]
    ELSE Append(d, <<k, v>>)

\* ------------------------------------------------------- BarbParameters
\* mutant of BarbParameters: the position is coerced but not clamped
BarbParametersNoClamp(position, length, start_angle, end_angle) ==
    [tag         |-> "barb",
     position    |-> ToFloat(position),
     length      |-> ToFloat(length),
     start_angle |-> start_angle,
     end_angle   |-> end_angle]

\* BarbParameters.__init__: position clamped by sorted([0, float(position), 1])[1],
\* length coerced to float, the angles stored as given
BarbParameters(position, length, start_angle, end_angle) ==
    [tag         |-> "barb",
     position    |-> Sorted(<<I(0), ToFloat(position), I(1)>>)[2],
     length      |-> ToFloat(length),
     start_angle |-> start_angle,
     end_angle   |-> end_angle]

\* the first error among the values of s, or ok when there is none
FirstErr(s, ok) ==
    IF \E i \in 1..Len(s) : IsErr(s[i])
    THEN s[CHOOSE i \in 1..Len(s) : IsErr(s[i]) /\ \A j \in 1..(i - 1) : ~IsErr(s[j])]
    ELSE ok

\* lerp(a, b, t) of two scalars: floats blend, anything else has no lerp method
ScalarLerp(a, b, t) ==
    IF IsFloat(a) /\ IsFloat(b)
    THEN FAdd(FMul(FSub(b, a), ToFloat(t)), a)
    ELSE Err("AttributeError")

\* BarbParameters.lerp(self, other, t)
BarbLerp(self, other, t) ==
    IF other.tag # "barb" THEN Err("AttributeError")
    ELSE LET p == ScalarLerp(self.position, other.position, t)
             l == ScalarLerp(self.length, other.length, t)
             s == ScalarLerp(self.start_angle, other.start_angle, t)
             e == ScalarLerp(self.end_angle, other.end_angle, t)
         IN  FirstErr(<<p, l, s, e>>, BarbParameters(p, l, s, e))

\* ------------------------------------------------------------------ lerp
\* lerp(a, b, t); an argument whose evaluation raised propagates its error
Lerp(a, b, t) ==
    IF IsErr(a) THEN a
    ELSE IF IsErr(b) THEN b
    ELSE IF a.tag = "barb" THEN BarbLerp(a, b, t)
    ELSE ScalarLerp(a, b, t)

\* ------------------------------------------------------------- LineGraph
RECURSIVE FloatKeys(_)
\* {float(key): value for key, value in points.items()}
FloatKeys(points) ==
    IF points = <<>> THEN <<>>
    ELSE LET n == Len(points)
         IN  DictSet(FloatKeys(SubSeq(points, 1, n - 1)), ToFloat(points[n][1]), points[n][2])

WithDefault(d, k) == IF DictHas(d, k) THEN d ELSE DictSet(d, k, Zero)

\* mutant of LineGraph: the default at 1.0 is forgotten
LineGraphZeroOnly(points) == WithDefault(FloatKeys(points), Zero)

\* LineGraph.__init__(points): the dict the new object owns
LineGraph(points) == WithDefault(WithDefault(FloatKeys(points), Zero), One)

\* mutant of PointLocations: the keys in the dict's own order, unsorted
PointLocationsUnsorted(d) == DictKeys(d)

\* point_locations()
PointLocations(d) == Sorted(DictKeys(d))

RECURSIVE ScanFromFirst(_, _, _, _)
\* mutant of Scan: the lower neighbour is always the first key
ScanFromFirst(d, parameters, parameter, x) ==
    IF x > Len(parameters) THEN Err("KeyError")
    ELSE IF FLe(parameter, parameters[x])
    THEN LET low  == parameters[1]
             high == parameters[x]
         IN  Lerp(DictGet(d, low), DictGet(d, high),
                  FDiv(FSub(parameter, low), FSub(high, low)))
    ELSE ScanFromFirst(d, parameters, parameter, x + 1)

RECURSIVE Scan(_, _, _, _)
\* the loop of get(): for x in range(1, len(parameters)), x being 0-based there
Scan(d, parameters, parameter, x) ==
    IF x > Len(parameters) THEN Err("KeyError")
    ELSE IF FLe(parameter, parameters[x])
    THEN LET low  == parameters[x - 1]
             high == parameters[x]
         IN  Lerp(DictGet(d, low), DictGet(d, high),
                  FDiv(FSub(parameter, low), FSub(high, low)))
    ELSE Scan(d, parameters, parameter, x + 1)

\* get(parameter)
Get(d, parameter) ==
    LET p == ToFloat(parameter)
    IN  IF DictHas(d, p) THEN DictGet(d, p)
        ELSE Scan(d, PointLocations(d), p, 2)

InUnit(p) == FLe(Zero, p) /\ FLe(p, One)

Ok(x) == [tag |-> "ok", val |-> x]

\* mutant of SetPoint: only the lower end of the range is checked
SetPointLowerOnly(d, parameter, value) ==
    LET p == ToFloat(parameter)
    IN  IF FLe(Zero, p) THEN Ok(DictSet(d, p, value)) ELSE Err("ValueError")

\* set(parameter, value): the new dict, or the error raised
SetPoint(d, parameter, value) ==
    LET p == ToFloat(parameter)
    IN  IF InUnit(p) THEN Ok(DictSet(d, p, value)) ELSE Err("ValueError")

\* mutant of ResultObj: result = self, the loop fills the receiver
ResultObjSelf(h, self) == self

\* result = LineGraph(): the object the loop of lerp() fills, allocated at the end of
\* the heap h
ResultObj(h, self) == Len(h) + 1

RECURSIVE LerpLoop(_, _, _, _, _, _)
\* for point in pts: result[point] = lerp(self[point], other[point], t)
\* h is the heap (object id -> dict); an error ends the loop
LerpLoop(h, self, other, r, pts, t) ==
    IF pts = <<>> THEN Ok(h)
    ELSE LET point == Head(pts)
             v     == Lerp(Get(h[self], point), Get(h[other], point), t)
             d     == IF IsErr(v) THEN v ELSE SetPoint(h[r], point, v)
         IN  IF IsErr(d) THEN d
             ELSE LerpLoop([h EXCEPT ![r] = d.val], self, other, r, Tail(pts), t)

\* self.lerp(other, t) on the heap h: Ok(the heap with the result object) or the error
GraphLerp(h, self, other, t) ==
    LerpLoop(Append(h, LineGraph(<<>>)), self, other, ResultObj(h, self),
             PointLocations(h[self]) \o PointLocations(h[other]), t)

\* ------------------------------------------------------------------ inputs
B1 == BarbParameters(Half, One, Zero, F(10, 0))
\* values stored in graphs: floats, a whole number, a BarbParameters record
Values == {One, F(10, 0), I(10), B1}
InitKeys == {I(0), Half, F(3, 1)}
SetKeys == {F(-1, 1), F(1, 2), Half, I(1), F(3, 1)}
GetArgs == {F(-1, 1), Zero, F(1, 2), Half, F(3, 2), I(1), F(3, 1)}
Ts == {Zero, Half, One}

\* Arguments of LineGraph(): no pair, any one pair, or both endpoints supplied.
\* Graphs of more keys arise through set().
Inputs ==
    {<<>>}
    \cup {<< <<k, v>> >> : k \in InitKeys, v \in Values}
    \cup {<< <<One, F(10, 0)>>, <<I(0), One>> >>}

\* ------------------------------------------------------------------- state
VARIABLES
    graphs,   \* the heap: object id -> the dict self.__points of that LineGraph
    stored,   \* history: object id -> [key -> the value last stored at it]
    last,     \* the last call: its arguments and its outcome
    nsets,    \* set() calls so far
    pending,  \* object id -> the set() calls still to be made on it (SpecOrder)
    barbs,    \* the BarbParameters objects constructed, in order (SpecBarb)
    sampling, \* the locals of make_barb_curves and the curves in the scene (SpecSample)
    scaling   \* the locals of scale_feathers and the feathers' scales (SpecScale)

vars == <<graphs, stored, last, nsets, pending, barbs, sampling, scaling>>
\* what the LineGraph calls leave alone
others == <<barbs, sampling, scaling>>

None == [tag |-> "none"]
Ref(g) == [tag |-> "ref", id |-> g]
Call(op, g, other, parameter, value, result, input) ==
    [op |-> op, g |-> g, other |-> other, parameter |-> parameter, value |-> value,
     result |-> result, input |-> input]

\* no record, no sampling loop and no scaling loop exist
NoOthers == barbs = <<>> /\ sampling = None /\ scaling = None

Objects == 1..Len(graphs)
KeySet(d) == {d[i][1] : i \in 1..Len(d)}
Store(f, k, v) == [x \in DOMAIN f \cup {k} |-> IF x = k THEN v ELSE f[x]]

\* what construction from points stores: the pair given last for each key, 0.0 at a
\* missing endpoint
Supplied(points) ==
    [k \in {ToFloat(points[i][1]) : i \in 1..Len(points)} \cup {Zero, One} |->
        IF \E i \in 1..Len(points) : ToFloat(points[i][1]) = k
        THEN points[CHOOSE i \in 1..Len(points) :
                      /\ ToFloat(points[i][1]) = k
                      /\ \A j \in (i + 1)..Len(points) : ToFloat(points[j][1]) # k][2]
        ELSE Zero]

\* g = LineGraph(points): the state after a program's first construction
Init ==
    \E points \in Inputs :
        /\ graphs = <<LineGraph(points)>>
        /\ stored = <<Supplied(points)>>
        /\ last = Call("construct", 1, 0, None, None, Ref(1), points)
        /\ nsets = 0
        /\ pending = <<>>
        /\ NoOthers

\* g.set(parameter, value)
Set(g, parameter, value) ==
    /\ \E r \in {SetPoint(graphs[g], parameter, value)} :
           /\ graphs' = IF IsErr(r) THEN graphs ELSE [graphs EXCEPT ![g] = r.val]
           /\ stored' = IF IsErr(r) THEN stored
                        ELSE [stored EXCEPT ![g] = Store(@, ToFloat(parameter), value)]
           /\ last' = Call("set", g, 0, parameter, value, IF IsErr(r) THEN r ELSE None, <<>>)
    /\ nsets' = nsets + 1
    /\ UNCHANGED others

\* g.get(parameter)
GetStep(g, parameter) ==
    /\ last' = Call("get", g, 0, parameter, None, Get(graphs[g], parameter), <<>>)
    /\ UNCHANGED <<graphs, stored, nsets, pending, others>>

\* result = self.lerp(other, t)
LerpStep(self, other, t) ==
    /\ \E r \in {GraphLerp(graphs, self, other, t)} :
           /\ graphs' = IF IsErr(r) THEN graphs ELSE r.val
           /\ stored' = IF IsErr(r) THEN stored
                        ELSE Append(stored,
                               [k \in KeySet(graphs[self]) \cup KeySet(graphs[other]) |->
                                  Lerp(Get(graphs[self], k), Get(graphs[other], k), t)])
           /\ last' = Call("lerp", self, other, t, None,
                           IF IsErr(r) THEN r ELSE Ref(ResultObj(graphs, self)), <<>>)
    /\ UNCHANGED <<nsets, pending, others>>

\* One graph, then any calls of set() and get() on it.
Next ==
    \/ \E g \in Objects, k \in SetKeys, v \in Values :
          nsets < MaxSets /\ Set(g, k, v) /\ UNCHANGED pending
    \/ \E g \in Objects, p \in GetArgs : GetStep(g, p)

Spec == Init /\ [][Next]_vars

\* arguments of LineGraph() for the two graphs that are blended
LerpInputs ==
    {<<>>, << <<I(0), One>> >>, << <<I(0), F(10, 0)>> >>, << <<Half, F(10, 0)>> >>,
     << <<Half, B1>> >>, << <<F(3, 1), One>> >>}
LerpSetKeys == {F(1, 2), I(1)}
LerpSetValues == {F(10, 0)}
LerpGetArgs == {F(1, 2)}

\* g1 = LineGraph(p1); g2 = LineGraph(p2): the state after two constructions
InitLerp ==
    \E p1 \in LerpInputs, p2 \in LerpInputs :
        /\ graphs = <<LineGraph(p1), LineGraph(p2)>>
        /\ stored = <<Supplied(p1), Supplied(p2)>>
        /\ last = Call("construct", 2, 0, None, None, Ref(2), p2)
        /\ nsets = 0
        /\ pending = <<>>
        /\ NoOthers

\* no lerp() has returned a graph yet
Unblended == Len(graphs) = 2

\* Two graphs, one lerp() between any two of them, and set() and get() on any graph
\* before and after it.
NextLerp ==
    \/ \E self \in Objects, other \in Objects, t \in Ts :
          Unblended /\ LerpStep(self, other, t)
    \/ \E g \in Objects, k \in LerpSetKeys, v \in LerpSetValues :
          nsets < MaxSets /\ Set(g, k, v) /\ UNCHANGED pending
    \/ \E g \in Objects, p \in LerpGetArgs : GetStep(g, p)

SpecLerp == InitLerp /\ [][NextLerp]_vars

\* the keys and values of the set() calls whose order is varied
PlanKeys == {F(1, 2), Half, I(1)}
PlanValues == {F(10, 0), B1}
\* sets of set() calls on pairwise distinct keys of [0, 1]
Plans ==
    {plan \in SUBSET (PlanKeys \X PlanValues) :
        \A c1 \in plan, c2 \in plan : c1 # c2 => ToFloat(c1[1]) # ToFloat(c2[1])}

\* two graphs constructed from the same pairs, and the same set() calls to make on each
InitOrder ==
    \E points \in Inputs, plan \in Plans :
        /\ graphs = <<LineGraph(points), LineGraph(points)>>
        /\ stored = <<Supplied(points), Supplied(points)>>
        /\ last = Call("construct", 2, 0, None, None, Ref(2), points)
        /\ nsets = 0
        /\ pending = <<plan, plan>>
        /\ NoOthers

\* the next set() call on graph g, any of those still to be made on it
PlannedSet(g, c) ==
    /\ c \in pending[g]
    /\ Set(g, c[1], c[2])
    /\ pending' = [pending EXCEPT ![g] = @ \ {c}]

NextOrder == \E g \in Objects : \E c \in pending[g] : PlannedSet(g, c)

SpecOrder == InitOrder /\ [][NextOrder]_vars

\* ------------------------------------------- BarbParameters specification
\* constructor arguments: below, inside and above [0, 1], whole and fractional
BarbPositions == {F(-1, 1), I(0), Half, I(1), F(3, 1)}
BarbLengths == {I(1), F(3, 0)}
\* (start_angle, end_angle): whole numbers and floats
BarbAngles == {<<I(0), I(10)>>, <<I(20), I(30)>>, <<Zero, F(10, 0)>>, <<F(20, 0), F(10, 0)>>}

\* no call has been made yet
NoCall == Call("none", 0, 0, None, None, None, <<>>)

InitBarb ==
    /\ graphs = <<>>
    /\ stored = <<>>
    /\ last = NoCall
    /\ nsets = 0
    /\ pending = <<>>
    /\ barbs = <<>>
    /\ sampling = None
    /\ scaling = None

\* BarbParameters(position, length, start_angle, end_angle)
NewBarb(position, length, start_angle, end_angle) ==
    /\ barbs' = Append(barbs, BarbParameters(position, length, start_angle, end_angle))
    /\ last' = Call("barb", Len(barbs) + 1, 0, None, None, Ref(Len(barbs) + 1),
                    <<position, length, start_angle, end_angle>>)
    /\ UNCHANGED <<graphs, stored, nsets, pending, sampling, scaling>>

\* barbs[self].lerp(barbs[other], t): the record returned joins barbs
BarbLerpStep(self, other, t) ==
    /\ \E r \in {BarbLerp(barbs[self], barbs[other], t)} :
           /\ barbs' = IF IsErr(r) THEN barbs ELSE Append(barbs, r)
           /\ last' = Call("barblerp", self, other, t, None, r, <<>>)
    /\ UNCHANGED <<graphs, stored, nsets, pending, sampling, scaling>>

\* Two records A and B are constructed, then one lerp() between them.
NextBarb ==
    \/ \E position \in BarbPositions, length \in BarbLengths, angles \in BarbAngles :
          /\ Len(barbs) < 2
          /\ NewBarb(position, length, angles[1], angles[2])
    \/ \E self \in 1..2, other \in 1..2, t \in Ts :
          /\ Len(barbs) = 2
          /\ BarbLerpStep(self, other, t)

SpecBarb == InitBarb /\ [][NextBarb]_vars

\* ------------------------------------------------------ make_barb_curves
\* anchors in a selection
MaxAnchors == 4

Max(a, b) == IF a >= b THEN a ELSE b

\* a / b of two floats
TrueDiv(a, b) == IF b = Zero THEN Err("ZeroDivisionError") ELSE FDiv(a, b)

\* mutant of ParameterPosition: the index divided by the number of anchors
ParameterPositionByCount(i, count) == TrueDiv(F(i, 0), F(count, 0))

\* float(i) / max(count - 1, 1)
ParameterPosition(i, count) == TrueDiv(F(i, 0), F(Max(count - 1, 1), 0))

\* draw_barb(position, barb_parameters) for the anchor i: the curve it leaves in the
\* scene, or the error of reading the fields of something that is no record
DrawBarb(i, barb_parameters) ==
    IF barb_parameters.tag = "barb"
    THEN [tag |-> "curve", anchor |-> i, start_angle |-> barb_parameters.start_angle,
          end_angle |-> barb_parameters.end_angle, length |-> barb_parameters.length]
    ELSE Err("AttributeError")

B2 == BarbParameters(One, F(3, 0), F(20, 0), F(10, 0))
\* a record built from whole numbers
B3 == BarbParameters(I(0), I(1), I(0), I(10))
SampleKeys == <<I(0), Half, I(1)>>
SampleValues == {B1, B2, B3}
\* the graphs sampled: any of the keys 0, 0.5, 1 given, each with any of the records
SampleInputs ==
    {SelectSeq([j \in 1..Len(SampleKeys) |-> <<SampleKeys[j], f[j]>>],
               LAMBDA kv : kv[2] # None) :
        f \in [1..Len(SampleKeys) -> SampleValues \cup {None}]}

\* make_barb_curves(selection, parameters, mirror) entered: count anchors, no barb yet
InitSample ==
    \E points \in SampleInputs, count \in 1..MaxAnchors, mirror \in BOOLEAN :
        /\ graphs = <<LineGraph(points)>>
        /\ stored = <<Supplied(points)>>
        /\ last = Call("construct", 1, 0, None, None, Ref(1), points)
        /\ nsets = 0
        /\ pending = <<>>
        /\ barbs = <<>>
        /\ scaling = None
        /\ sampling = [count |-> count, mirror |-> mirror, i |-> 0, pc |-> "loop",
                       queried |-> <<>>, infos |-> <<>>, curves |-> <<>>,
                       raised_in |-> "", result |-> None]

\* one iteration of the loop over the anchors: the position is computed, the graph is
\* asked for the record there, draw_barb adds its curve to the scene; an error raised
\* on the way ends the call
SampleAnchor ==
    /\ sampling.pc = "loop"
    /\ sampling.i < sampling.count
    /\ \E parameter_position \in {ParameterPosition(sampling.i, sampling.count)} :
          IF IsErr(parameter_position)
          THEN sampling' = [sampling EXCEPT !.pc = "failed", !.raised_in = "division",
                              !.result = parameter_position]
          ELSE \E barb_info \in {Get(graphs[1], parameter_position)} :
                 IF IsErr(barb_info)
                 THEN sampling' = [sampling EXCEPT !.pc = "failed", !.raised_in = "get",
                                     !.result = barb_info,
                                     !.queried = Append(@, parameter_position)]
                 ELSE \E barb \in {DrawBarb(sampling.i, barb_info)} :
                        IF IsErr(barb)
                        THEN sampling' = [sampling EXCEPT !.pc = "failed",
                                            !.raised_in = "draw_barb", !.result = barb,
                                            !.queried = Append(@, parameter_position),
                                            !.infos = Append(@, barb_info)]
                        ELSE sampling' = [sampling EXCEPT !.i = @ + 1,
                                            !.queried = Append(@, parameter_position),
                                            !.infos = Append(@, barb_info),
                                            !.curves = Append(@, barb)]
    /\ UNCHANGED <<graphs, stored, last, nsets, pending, barbs, scaling>>

\* after the loop: the curves are grouped, the group is duplicated when mirror is set
GroupBarbs ==
    /\ sampling.pc = "loop"
    /\ sampling.i = sampling.count
    /\ sampling' = [sampling EXCEPT !.pc = "done",
                       !.result = IF sampling.mirror THEN <<"group", "mirrored_group">>
                                  ELSE <<"group">>]
    /\ UNCHANGED <<graphs, stored, last, nsets, pending, barbs, scaling>>

NextSample ==
    \/ SampleAnchor
    \/ GroupBarbs

SpecSample == InitSample /\ [][NextSample]_vars

\* -------------------------------------------------------- scale_feathers
\* feathers in a selection
MaxFeathers == 3

\* the integer square root of n >= 0, for n below 4^(2 * Prec + 1)
ISqrt(n) == CHOOSE r \in 0..Pow2(2 * Prec + 1) : r * r <= n /\ n < (r + 1) * (r + 1)

\* math.sqrt(a): the root to Prec+1 extra bits, the remainder kept as a sticky bit,
\* then rounded once; a negative argument is a math domain error
FSqrt(a) ==
    IF a.m < 0 THEN Err("ValueError")
    ELSE LET s   == Prec + 1
             odd == a.e % 2 = 1
             m2  == IF odd THEN 2 * a.m ELSE a.m
             e2  == IF odd THEN a.e - 1 ELSE a.e
             big == m2 * Pow2(2 * s)
             r   == ISqrt(big)
             st  == IF r * r = big THEN 0 ELSE 1
         IN  Round(2 * r + st, (e2 \div 2) - s - 1)

\* str.lower() on the axis names used
Lower(axis) ==
    IF axis = "X" THEN "x" ELSE IF axis = "Y" THEN "y" ELSE IF axis = "Z" THEN "z" ELSE axis

\* the index into scale that the if / elif chain selects, 0 where it raises
AxisIndex(axis) ==
    IF axis = "x" THEN 1 ELSE IF axis = "y" THEN 2 ELSE IF axis = "z" THEN 3 ELSE 0

ScaleFactors == {One, F(4, 0), F(16, 0), F(1, 2), F(-1, 0)}
Axes == {"x", "y", "Z", "w"}
\* the scale attribute of a feather before the call
FeatherScales == {<<One, One, One>>, <<F(2, 0), One, Half>>}

\* scale_feathers(feathers, scale_factor, primary_axis, secondary_axis) entered
InitScale ==
    \E n \in 1..MaxFeathers :
      \E feathers \in [1..n -> FeatherScales], scale_factor \in ScaleFactors,
         primary_axis \in Axes, secondary_axis \in Axes :
        /\ graphs = <<>>
        /\ stored = <<>>
        /\ last = NoCall
        /\ nsets = 0
        /\ pending = <<>>
        /\ barbs = <<>>
        /\ sampling = None
        /\ scaling = [feathers |-> feathers, before |-> feathers, done |-> 0,
                      given |-> scale_factor, scale_factor |-> scale_factor,
                      primary_axis |-> primary_axis, secondary_axis |-> secondary_axis,
                      pc |-> "loop", result |-> None]

\* one iteration of the loop over the feathers: the scale is read, its primary
\* component multiplied by scale_factor, scale_factor replaced by its square root,
\* the secondary component multiplied by it, and the scale written back
ScaleFeather ==
    /\ scaling.pc = "loop"
    /\ scaling.done < Len(scaling.feathers)
    /\ LET feather        == scaling.done + 1
           scale          == scaling.feathers[feather]
           primary_axis   == Lower(scaling.primary_axis)
           secondary_axis == Lower(scaling.secondary_axis)
           p              == AxisIndex(primary_axis)
           q              == AxisIndex(secondary_axis)
           scale_factor   == FSqrt(scaling.scale_factor)
       IN  IF p = 0
           THEN scaling' = [scaling EXCEPT !.pc = "failed", !.result = Err("SyntaxError"),
                              !.primary_axis = primary_axis]
           ELSE IF IsErr(scale_factor)
           THEN scaling' = [scaling EXCEPT !.pc = "failed", !.result = scale_factor,
                              !.primary_axis = primary_axis,
                              !.secondary_axis = secondary_axis]
           ELSE IF q = 0
           THEN scaling' = [scaling EXCEPT !.pc = "failed", !.result = Err("SyntaxError"),
                              !.primary_axis = primary_axis,
                              !.secondary_axis = secondary_axis,
                              !.scale_factor = scale_factor]
           ELSE LET scale1 == [scale EXCEPT ![p] = FMul(@, scaling.scale_factor)]
                    scale2 == [scale1 EXCEPT ![q] = FMul(@, scale_factor)]
                IN  scaling' = [scaling EXCEPT !.feathers[feather] = scale2,
                                  !.done = feather,
                                  !.primary_axis = primary_axis,
                                  !.secondary_axis = secondary_axis,
                                  !.scale_factor = scale_factor]
    /\ UNCHANGED <<graphs, stored, last, nsets, pending, barbs, sampling>>

\* the loop is exhausted and the function returns
ScaleReturn ==
    /\ scaling.pc = "loop"
    /\ scaling.done = Len(scaling.feathers)
    /\ scaling' = [scaling EXCEPT !.pc = "done"]
    /\ UNCHANGED <<graphs, stored, last, nsets, pending, barbs, sampling>>

NextScale ==
    \/ ScaleFeather
    \/ ScaleReturn

SpecScale == InitScale /\ [][NextScale]_vars

\* ------------------------------------------------------------------ claims
\* the keys strictly below / above p in d
Below(d, p) == {k \in KeySet(d) : FLt(k, p)}
Above(d, p) == {k \in KeySet(d) : FLt(p, k)}
\* the largest key below p, the smallest key above p
LowKey(d, p) == CHOOSE k \in Below(d, p) : \A j \in Below(d, p) : FLe(j, k)
HighKey(d, p) == CHOOSE k \in Above(d, p) : \A j \in Above(d, p) : FLe(k, j)

\* C1: every key stored in a graph lies in [0, 1], whatever pairs it was constructed
\* from and whatever set() calls followed.
KeysInUnit == \A g \in Objects : \A k \in KeySet(graphs[g]) : InUnit(k)

\* C2: get(p) with p < 0 or p > 1 fails with an error and returns no value.
GetOutsideFails ==
    (last.op = "get" /\ ~InUnit(ToFloat(last.parameter))) => IsErr(last.result)

\* C3: keys 0.0 and 1.0 are present in every graph in every reachable state; a
\* construction keeps the value supplied for an endpoint and stores 0.0 at an
\* endpoint it was not given.
EndpointsPresent ==
    /\ \A g \in Objects : DictHas(graphs[g], Zero) /\ DictHas(graphs[g], One)
    /\ last.op = "construct" =>
          \A k \in {Zero, One} :
              LET given == {i \in 1..Len(last.input) : ToFloat(last.input[i][1]) = k}
              IN  /\ given = {} => DictGet(graphs[last.g], k) = Zero
                  /\ \A i \in given : DictGet(graphs[last.g], k) = last.input[i][2]
                  /\ KeySet(graphs[last.g]) =
                       {ToFloat(last.input[i][1]) : i \in 1..Len(last.input)} \cup {Zero, One}

\* C3 witness: after a lerp(), a set() and a get(), the first graph still holds the
\* 10.0 it was given at 0.0 and the default at 1.0, and the blended graph holds both
\* endpoints.
EndpointsWitness ==
    /\ last.op = "get" /\ Len(graphs) = 3 /\ nsets > 0
    /\ DictGet(graphs[1], Zero) = F(10, 0) /\ DictGet(graphs[1], One) = Zero
    /\ {Zero, One} \subseteq KeySet(graphs[3])

\* C4: set(position, value) with position outside [0, 1] raises and leaves the graph
\* as it was: the same keys, the same values, the same result of every get.
FailedSetNoEffect ==
    [][(last'.op = "set" /\ ~InUnit(ToFloat(last'.parameter))) =>
          /\ IsErr(last'.result)
          /\ graphs' = graphs
          /\ \A p \in GetArgs : Get(graphs'[last'.g], p) = Get(graphs[last'.g], p)]_vars

\* C4 witness: a set() outside [0, 1] has raised ValueError.
FailedSetWitness ==
    /\ last.op = "set" /\ ~InUnit(ToFloat(last.parameter))
    /\ last.result = Err("ValueError")

\* C5: get(k) at a stored key k returns the value most recently stored at k, by
\* construction or by the last set(k, .), uninterpolated; set(k, v) followed by
\* get(k) returns v.
StoredValueReturned ==
    /\ \A g \in Objects :
          /\ KeySet(graphs[g]) = DOMAIN stored[g]
          /\ \A k \in DOMAIN stored[g] : Get(graphs[g], k) = stored[g][k]
    /\ (last.op = "set" /\ ~IsErr(last.result)) =>
          Get(graphs[last.g], last.parameter) = last.value
    /\ (last.op = "get" /\ ToFloat(last.parameter) \in DOMAIN stored[last.g]) =>
          last.result = stored[last.g][ToFloat(last.parameter)]

\* C5 witness: get(1) returns the record a set() wrote over the endpoint's value.
StoredValueWitness ==
    /\ last.op = "get" /\ last.parameter = I(1) /\ last.result = B1
    /\ nsets > 0

\* the position p lies strictly between two adjacent keys of d and is no key
Between(d, p) == ~DictHas(d, p) /\ Below(d, p) # {} /\ Above(d, p) # {}

\* what C6 says get(p) is
Blend(d, p) ==
    Lerp(DictGet(d, LowKey(d, p)), DictGet(d, HighKey(d, p)),
         FDiv(FSub(p, LowKey(d, p)), FSub(HighKey(d, p), LowKey(d, p))))

\* C6: for p strictly between adjacent keys low < p < high, get(p) is
\* blend(value(low), value(high), (p - low) / (high - low)); the graph
\* {0.0: 0.0, 0.5: 10.0, 1.0: 0.0} has get(0.25) = 5.0 and the default graph has
\* get(0.5) = 0.0.
InterpolatesBetween ==
    /\ \A g \in Objects : \A a \in GetArgs :
          Between(graphs[g], ToFloat(a)) => Get(graphs[g], a) = Blend(graphs[g], ToFloat(a))
    /\ (last.op = "get" /\ Between(graphs[last.g], ToFloat(last.parameter))) =>
          last.result = Blend(graphs[last.g], ToFloat(last.parameter))
    /\ Get(LineGraph(<< <<Zero, Zero>>, <<Half, F(10, 0)>>, <<One, Zero>> >>), F(1, 2)) = F(5, 0)
    /\ Get(LineGraph(<<>>), Half) = Zero

\* C6 witness: get(0.5) answered from the second segment of a graph of three keys
\* 0.0 < 0.25 < 1.0, by a float.
InterpolatesWitness ==
    /\ last.op = "get" /\ last.parameter = Half
    /\ KeySet(graphs[last.g]) = {Zero, F(1, 2), One}
    /\ IsFloat(last.result) /\ last.result # DictGet(graphs[last.g], F(1, 2))
    /\ last.result # DictGet(graphs[last.g], One)

\* C7: g1.lerp(g2, t) succeeds for any two graphs and any t in [0, 1]; the keys of
\* the result are the union of the keys of g1 and g2 and its value at each key k is
\* blend(g1.get(k), g2.get(k), t).
LerpIsUnionBlend ==
    last.op = "lerp" =>
        /\ ~IsErr(last.result)
        /\ LET self  == graphs[last.g]
               other == graphs[last.other]
               res   == graphs[last.result.id]
           IN  /\ KeySet(res) = KeySet(self) \cup KeySet(other)
               /\ \A k \in KeySet(res) :
                     DictGet(res, k) = Lerp(Get(self, k), Get(other, k), last.parameter)

\* C8: at every key k of the result, g1.lerp(g2, 0.0).get(k) = g1.get(k) and
\* g1.lerp(g2, 1.0).get(k) = g2.get(k).
LerpAtEnds ==
    (last.op = "lerp" /\ ~IsErr(last.result)) =>
        LET self  == graphs[last.g]
            other == graphs[last.other]
            res   == graphs[last.result.id]
        IN  \A k \in KeySet(res) :
               /\ last.parameter = Zero => Get(res, k) = Get(self, k)
               /\ last.parameter = One => Get(res, k) = Get(other, k)

\* C9: lerp() changes neither of its inputs and returns a new object; a later set()
\* on one graph changes no other graph.
LerpFrame ==
    [][/\ last'.op = "lerp" =>
            /\ \A g \in Objects : graphs'[g] = graphs[g]
            /\ (~IsErr(last'.result) /\ last' # last) =>
                  /\ last'.result.id \notin Objects
                  /\ DOMAIN graphs' = Objects \cup {last'.result.id}
       /\ last'.op = "set" =>
            /\ DOMAIN graphs' = Objects
            /\ \A g \in Objects \ {last'.g} : graphs'[g] = graphs[g]]_vars

\* C9 witness: set() has stored into one of the three graphs after a lerp() that
\* blended two different graphs into a third different from both.
LerpFrameWitness ==
    /\ last.op = "set" /\ ~IsErr(last.result) /\ Len(graphs) = 3
    /\ graphs[3] # graphs[1] /\ graphs[3] # graphs[2] /\ graphs[1] # graphs[2]

StrictlyAscending(s) == \A i \in 1..Len(s) : \A j \in (i + 1)..Len(s) : FLt(s[i], s[j])

\* C10: the order of set() calls on pairwise distinct keys is irrelevant: two graphs
\* constructed from the same pairs that have received the same calls, in any two
\* orders, have the same point_locations(), strictly ascending, and the same get(p)
\* at every p in [0, 1].
OrderIrrelevant ==
    /\ \A g \in Objects : StrictlyAscending(PointLocations(graphs[g]))
    /\ pending[1] = pending[2] =>
          /\ PointLocations(graphs[1]) = PointLocations(graphs[2])
          /\ \A p \in GetArgs :
                InUnit(ToFloat(p)) => Get(graphs[1], p) = Get(graphs[2], p)

\* C10 witness: both graphs have received the same three calls and hold their keys
\* in different insertion orders.
OrderWitness ==
    /\ pending[1] = {} /\ pending[2] = {} /\ nsets = 6
    /\ graphs[1] # graphs[2]
    /\ DictKeys(graphs[1]) # DictKeys(graphs[2])

\* position as the constructor is to store it: 0 below the range, 1 above it, kept inside
Clamped(position) ==
    LET p == ToFloat(position)
    IN  IF FLt(p, Zero) THEN Zero ELSE IF FLt(One, p) THEN One ELSE p

\* C11: every BarbParameters, constructed or returned by lerp(), has its position in
\* [0, 1]: a position below 0 is stored as 0, one above 1 as 1, one inside is kept;
\* length, start_angle and end_angle hold the values given, unclamped.
PositionClamped ==
    /\ \A i \in 1..Len(barbs) : InUnit(ToFloat(barbs[i].position))
    /\ last.op = "barb" =>
          LET b == barbs[last.g]
          IN  /\ ToFloat(b.position) = Clamped(last.input[1])
              /\ ToFloat(b.length) = ToFloat(last.input[2])
              /\ b.start_angle = last.input[3]
              /\ b.end_angle = last.input[4]
    /\ (last.op = "barblerp" /\ ~IsErr(last.result)) =>
          /\ last.result = barbs[Len(barbs)]
          /\ InUnit(ToFloat(last.result.position))

\* the first record was built from a position below 0, the second has just been built
\* from a position above 1 and a length above 1
PositionClampedWitness ==
    /\ Len(barbs) = 2
    /\ barbs[1].position = I(0)
    /\ last.op = "barb"
    /\ last.input[1] = F(3, 1)
    /\ barbs[2].position = I(1)
    /\ barbs[2].length = F(3, 0)

\* a + (b - a) * t
Mix(a, b, t) == FAdd(ToFloat(a), FMul(FSub(ToFloat(b), ToFloat(a)), ToFloat(t)))

\* C12: A.lerp(B, t) of two records built from numeric arguments, whole or
\* fractional, returns a record, each field of which is a + (b - a) * t.
BarbLerpFieldwise ==
    last.op = "barblerp" =>
        /\ ~IsErr(last.result)
        /\ LET a == barbs[last.g]
               b == barbs[last.other]
               t == last.parameter
               r == last.result
           IN  /\ ToFloat(r.position) = Mix(a.position, b.position, t)
               /\ ToFloat(r.length) = Mix(a.length, b.length, t)
               /\ ToFloat(r.start_angle) = Mix(a.start_angle, b.start_angle, t)
               /\ ToFloat(r.end_angle) = Mix(a.end_angle, b.end_angle, t)

\* C13: the loop over N >= 1 anchors asks the graph at float(i) / max(N - 1, 1) for
\* the i-th anchor, in order, and the i-th record is graph.get() there: the first
\* position is 0.0, the positions strictly increase within [0, 1], and a loop that
\* ran to its end resolved exactly N records, the last at 1.0 when N > 1; N = 1
\* resolves one record at 0.0 and divides by nothing that is zero. The loop stops
\* short only where graph.get() itself raised or returned no record.
SamplesEvenlySpaced ==
    LET n == sampling.count
        q == sampling.queried
        divisor == IF n > 1 THEN n - 1 ELSE 1
    IN  /\ Len(q) <= n /\ Len(sampling.infos) <= Len(q)
        /\ \A j \in 1..Len(q) :
              /\ IsFloat(q[j])
              /\ q[j] = FDiv(F(j - 1, 0), F(divisor, 0))
              /\ InUnit(q[j])
              /\ \A k \in 1..(j - 1) : FLt(q[k], q[j])
        /\ Len(q) >= 1 => q[1] = Zero
        /\ \A j \in 1..Len(sampling.infos) : sampling.infos[j] = Get(graphs[1], q[j])
        /\ sampling.raised_in # "division"
        /\ sampling.pc = "failed" =>
              LET v == Get(graphs[1], q[Len(q)])
              IN  IF sampling.raised_in = "get" THEN IsErr(v) ELSE v.tag # "barb"
        /\ sampling.pc = "done" =>
              /\ Len(q) = n /\ Len(sampling.infos) = n
              /\ n > 1 => q[n] = One
              /\ n = 1 => q = <<Zero>>

\* a loop over four anchors has ended, each record resolved and drawn
SamplesWitness ==
    /\ sampling.pc = "done"
    /\ sampling.count = 4
    /\ Len(sampling.infos) = 4
    /\ sampling.queried[4] = One
    /\ sampling.infos[1] # sampling.infos[2]

\* C14: when resolving the record for an anchor fails, no barb curve has been
\* created for an earlier anchor: all N records are delivered or nothing is.
NoPartialCurves ==
    (sampling.pc = "failed" /\ sampling.raised_in = "get") => sampling.curves = <<>>

\* the scale a feather is to have: its primary component times scale_factor, then its
\* secondary component times the square root of scale_factor
ScaledOnce(scale, scale_factor, primary_axis, secondary_axis) ==
    LET p      == AxisIndex(Lower(primary_axis))
        q      == AxisIndex(Lower(secondary_axis))
        scale1 == [scale EXCEPT ![p] = FMul(@, scale_factor)]
    IN  [scale1 EXCEPT ![q] = FMul(@, FSqrt(scale_factor))]

\* C15: scale_feathers multiplies the primary axis of every feather by scale_factor
\* and its secondary axis by the square root of scale_factor, the same two factors
\* for every feather whatever its place in the list.
SameFactorsForAll ==
    \A feather \in 1..scaling.done :
        scaling.feathers[feather] =
            ScaledOnce(scaling.before[feather], scaling.given,
                       scaling.primary_axis, scaling.secondary_axis)

\* C16: on a graph constructed from positions in [0, 1] and changed by successful
\* set() calls only, get(p) returns a value and raises nothing for every p in [0, 1],
\* whether the endpoints were defaulted to 0.0 next to records at other keys or the
\* scalar values given were whole numbers.
GetTotalOnUnit ==
    (/\ last.op = "get"
     /\ InUnit(ToFloat(last.parameter))
     /\ \A k \in KeySet(graphs[last.g]) : InUnit(k))
        => ~IsErr(last.result)
====
